---- MODULE Spec2Model ----
(***************************************************************************)
(* A model of warlock (humantech fork): the schema walker that builds a    *)
(* registry of generated model classes (warlock/core.py) and the           *)
(* self-validating model instances those classes create (warlock/model.py).*)
(*                                                                         *)
(* Python objects live in a heap: a dict, a list or a Model instance is a  *)
(* heap cell and is referred to by its index, so that aliasing, in-place   *)
(* mutation and copy.deepcopy are what they are in the interpreter.        *)
(***************************************************************************)
EXTENDS Integers, Sequences, FiniteSets, TLC

VARIABLES
    heap,       \* the interpreter's objects: a sequence of cells
    inputIdx,   \* which schema of Inputs the caller holds (at heap cells 1..Len(Inputs[inputIdx]))
    build,      \* number of ModelFactory constructions started
    status,     \* status[b]: "running", "done" or the exception that aborted build b
    schema,     \* schema[b]: ModelFactory.schema of build b (the factory's deep copy)
    registry,   \* registry[b]: ModelFactory.model_registry of build b, name -> class
    types,      \* every class _model_factory has generated, in order of generation
    Classes,    \* the module global warlock.model.Classes: 0 (None) or the build whose registry it is
    stack,      \* the call stack of process_objects of the running build
    inst,       \* the Model instance under observation: its heap cell, 0 before it exists
    arg,        \* the caller's initial field mapping handed to the constructor: its heap cell
    last,       \* the last operation on a class or on inst: what was asked, the state before, the outcome
    written,    \* history: key -> value of the most recent inst[key] = value on that key
    born,       \* history: inst's fields, by value, when its constructor returned
    nconstruct, \* number of constructor calls
    returned    \* what the last read accessor handed to the caller, and how many were called

bvars == <<heap, inputIdx, build, status, schema, registry, types, Classes, stack>>
ivars == <<inst, arg, last, written, born, nconstruct, returned>>
vars == <<heap, inputIdx, build, status, schema, registry, types, Classes, stack,
          inst, arg, last, written, born, nconstruct, returned>>

(***************************************************************************)
(* Bounds of the model.                                                    *)
(***************************************************************************)
\* depth of process_objects recursion at which the interpreter gives up
\* (RuntimeError: maximum recursion depth exceeded)
RecursionLimit == 9
\* ModelFactory constructions per behaviour
MaxBuilds == 2
\* constructor calls per behaviour
MaxConstructs == 1
\* read accessor calls per behaviour
MaxReads == 1

(***************************************************************************)
(* Values and heap cells.                                                  *)
(***************************************************************************)
Str(s)  == [k |-> "str",  ref |-> 0, s |-> s]
Num(s)  == [k |-> "num",  ref |-> 0, s |-> s]
Bool(s) == [k |-> "bool", ref |-> 0, s |-> s]
None    == [k |-> "none", ref |-> 0, s |-> ""]
Ref(i)  == [k |-> "ref",  ref |-> i, s |-> ""]

EmptyMap == [z \in {} |-> None]

\* a plain dict, a plain list
Dict(f) == [kind |-> "dict", d |-> f, l |-> <<>>, cls |-> 0, attrs |-> EmptyMap]
List(s) == [kind |-> "list", d |-> EmptyMap, l |-> s, cls |-> 0, attrs |-> EmptyMap]

\* isinstance(v, dict): a Model is a dict too (class Model(dict))
IsDict(h, v) == v.k = "ref" /\ h[v.ref].kind \in {"dict", "model"}
IsList(h, v) == v.k = "ref" /\ h[v.ref].kind = "list"

\* dict.get(k), d[k] = v, del d[k], d.update(e) on the mapping of a cell
Get(o, k)    == IF k \in DOMAIN o.d THEN o.d[k] ELSE None
Put(f, k, v) == [z \in DOMAIN f \cup {k} |-> IF z = k THEN v ELSE f[z]]
Del(f, k)    == [z \in DOMAIN f \ {k} |-> f[z]]
Over(f, g)   == [z \in DOMAIN f \cup DOMAIN g |-> IF z \in DOMAIN g THEN g[z] ELSE f[z]]

SetD(h, i, f) == [h EXCEPT ![i].d = f]
SetL(h, i, s) == [h EXCEPT ![i].l = s]

(***************************************************************************)
(* copy.deepcopy: every cell reachable from v is copied once (the memo),   *)
(* so sharing and cycles inside v are preserved and nothing is shared with *)
(* the original.                                                           *)
(***************************************************************************)
RefsOf(o) ==
    {o.d[k].ref : k \in {z \in DOMAIN o.d : o.d[z].k = "ref"}}
    \cup {o.l[i].ref : i \in {z \in 1..Len(o.l) : o.l[z].k = "ref"}}
    \cup {o.attrs[k].ref : k \in {z \in DOMAIN o.attrs : o.attrs[z].k = "ref"}}

RECURSIVE Reach(_, _)
Reach(h, S) ==
    LET N == S \cup UNION {RefsOf(h[i]) : i \in S}
    IN  IF N = S THEN S ELSE Reach(h, N)

deepcopy(h, v) ==
    IF v.k # "ref" THEN [h |-> h, v |-> v]
    ELSE
      LET S == Reach(h, {v.ref})
          new(i) == Len(h) + Cardinality({j \in S : j <= i})
          old(n) == CHOOSE i \in S : new(i) = n
          remap(x) == IF x.k = "ref" THEN Ref(new(x.ref)) ELSE x
          copied(f) == [k \in DOMAIN f |-> remap(f[k])]
          \* a Model is rebuilt from its __dict__ and then filled item by item
          \* through __setitem__, which logs every item in the copy's changes
          owners(i) == {m \in S : /\ h[m].kind = "model"
                                  /\ "changes" \in DOMAIN h[m].attrs
                                  /\ h[m].attrs["changes"] = Ref(i)}
          logged(i) == IF owners(i) = {} THEN EmptyMap
                       ELSE copied(h[CHOOSE m \in owners(i) : TRUE].d)
          copyOf(i) ==
              [kind |-> h[i].kind,
               d |-> Over(copied(h[i].d), logged(i)),
               l |-> [j \in 1..Len(h[i].l) |-> remap(h[i].l[j])],
               cls |-> h[i].cls,
               attrs |-> copied(h[i].attrs)]
      IN  [h |-> h \o [n \in 1..Cardinality(S) |-> copyOf(old(Len(h) + n))],
           v |-> Ref(new(v.ref))]

(***************************************************************************)
(* core.py helpers.                                                        *)
(***************************************************************************)
\* get_schema_name: the 'name' entry when it is a string, else None
get_schema_name(h, v) ==
    LET name == Get(h[v.ref], "name")
    IN  IF name.k = "str" THEN name ELSE None

\* str.split(sep) for a one-character separator
RECURSIVE split(_, _)
split(s, sep) ==
    IF \E i \in 1..Len(s) : SubSeq(s, i, i) = sep
    THEN LET i == CHOOSE i \in 1..Len(s) :
                      /\ SubSeq(s, i, i) = sep
                      /\ \A j \in 1..(i - 1) : SubSeq(s, j, j) # sep
         IN  <<SubSeq(s, 1, i - 1)>> \o split(SubSeq(s, i + 1, Len(s)), sep)
    ELSE <<s>>

\* process_uri: (file_name, path); ValueError for a None uri
process_uri(uri) ==
    IF uri.k = "none" THEN [err |-> "ValueError", file_name |-> "", path |-> <<>>]
    ELSE
      LET sp_uri == split(uri.s, "#")
      IN  [err |-> "",
           file_name |-> sp_uri[1],
           path |-> IF Len(sp_uri) > 1
                    THEN SelectSeq(split(sp_uri[2], "/"), LAMBDA seg : seg # "")
                    ELSE <<>>]

\* a faulty resolve_reference: the fragment path is followed with get and a
\* segment that is missing yields None instead of an error
RECURSIVE follow_unchecked(_, _, _, _)
follow_unchecked(h, referenced, referenced_key, path) ==
    IF path = <<>> \/ ~IsDict(h, referenced)
    THEN [err |-> "", key |-> referenced_key,
          val |-> IF path = <<>> THEN referenced ELSE None]
    ELSE follow_unchecked(h, Get(h[referenced.ref], Head(path)), Str(Head(path)), Tail(path))

\* the loop of resolve_reference over the fragment path
RECURSIVE follow(_, _, _, _)
follow(h, referenced, referenced_key, path) ==
    IF path = <<>> THEN [err |-> "", key |-> referenced_key, val |-> referenced]
    ELSE IF ~IsDict(h, referenced)
    THEN [err |-> "AttributeError", key |-> referenced_key, val |-> None]
    ELSE
      LET nxt == Get(h[referenced.ref], Head(path))
      IN  IF nxt.k = "none"
          THEN [err |-> "KeyError", key |-> Str(Head(path)), val |-> None]
          ELSE follow(h, nxt, Str(Head(path)), Tail(path))

\* ModelFactory.resolve_reference(d), self.schema being root. A non-empty file
\* part opens a document on disk; the model has no files, so it fails (IOError).
resolve_reference(h, root, d) ==
    LET u == process_uri(Get(h[d.ref], "$ref"))
    IN  IF u.err # "" THEN [err |-> u.err, key |-> None, val |-> None]
        ELSE IF Len(u.file_name) > 0 THEN [err |-> "IOError", key |-> None, val |-> None]
        ELSE follow(h, root, None, u.path)

\* merge_dict(a, b): b is folded into a in place; a that is no dict is replaced by b.
\* The result is the heap after the merge and the value returned.
RECURSIVE merge_dict(_, _, _)
RECURSIVE merge_items(_, _, _, _)
RECURSIVE merge_items_overwriting(_, _, _, _)
\* a faulty merge_dict: an incoming list overwrites the list that is there
merge_items_overwriting(h, a, b, keys) ==
    IF keys = {} THEN [err |-> "", h |-> h, v |-> a]
    ELSE
      LET k == CHOOSE z \in keys : TRUE
          v == h[b.ref].d[k]
          rest == keys \ {k}
      IN  IF IsDict(h, v)
          THEN LET m == merge_dict(h, Get(h[a.ref], k), v)
               IN  IF m.err # "" THEN m
                   ELSE merge_items_overwriting(SetD(m.h, a.ref, Put(m.h[a.ref].d, k, m.v)),
                                                a, b, rest)
          ELSE merge_items_overwriting(SetD(h, a.ref, Put(h[a.ref].d, k, v)), a, b, rest)

merge_items(h, a, b, keys) ==
    IF keys = {} THEN [err |-> "", h |-> h, v |-> a]
    ELSE
      LET k == CHOOSE z \in keys : TRUE
          v == h[b.ref].d[k]
          rest == keys \ {k}
      IN  IF IsDict(h, v)
          THEN LET m == merge_dict(h, Get(h[a.ref], k), v)
               IN  IF m.err # "" THEN m
                   ELSE merge_items(SetD(m.h, a.ref, Put(m.h[a.ref].d, k, m.v)), a, b, rest)
          ELSE IF IsList(h, v) /\ k \in DOMAIN h[a.ref].d
          THEN LET cur == h[a.ref].d[k]
               IN  IF ~IsList(h, cur) THEN [err |-> "TypeError", h |-> h, v |-> a]
                   ELSE merge_items(SetL(h, cur.ref, h[cur.ref].l \o h[v.ref].l), a, b, rest)
          ELSE merge_items(SetD(h, a.ref, Put(h[a.ref].d, k, v)), a, b, rest)

merge_dict(h, a, b) ==
    IF ~IsDict(h, a) THEN [err |-> "", h |-> h, v |-> b]
    ELSE merge_items(h, a, b, DOMAIN h[b.ref].d)

\* reduce(merge_dict, items)
RECURSIVE reduce_merge(_, _, _)
reduce_merge(h, acc, items) ==
    IF items = <<>> THEN [err |-> "", h |-> h, v |-> acc]
    ELSE LET m == merge_dict(h, acc, Head(items))
         IN  IF m.err # "" THEN m ELSE reduce_merge(m.h, m.v, Tail(items))


(***************************************************************************)
(* The schemas a caller may hand to ModelFactory. Each is a small heap of  *)
(* its own, the root dict at cell 1.                                       *)
(***************************************************************************)
\* {name: P, type: object, required: [y],
\*  properties: {x: {type: string, default: "d"}, y: {type: string}}}
PlainSchema ==
    << Dict(("name" :> Str("P")) @@ ("type" :> Str("object"))
            @@ ("properties" :> Ref(2)) @@ ("required" :> Ref(5))),
       Dict(("x" :> Ref(3)) @@ ("y" :> Ref(4))),
       Dict(("type" :> Str("string")) @@ ("default" :> Str("d"))),
       Dict("type" :> Str("string")),
       List(<<Str("y")>>) >>

\* {name: A, type: object, properties: {self: {$ref: "#"}}}
SelfRefSchema ==
    << Dict(("name" :> Str("A")) @@ ("type" :> Str("object")) @@ ("properties" :> Ref(2))),
       Dict("self" :> Ref(3)),
       Dict("$ref" :> Str("#")) >>

\* a = {name: A, type: object, properties: {self: a}}: the property node is A itself
CyclicSchema ==
    << Dict(("name" :> Str("A")) @@ ("type" :> Str("object")) @@ ("properties" :> Ref(2))),
       Dict("self" :> Ref(1)) >>

\* {name: A, type: object, properties: {child: {name: A, type: object}}}
SameNameSchema ==
    << Dict(("name" :> Str("A")) @@ ("type" :> Str("object")) @@ ("properties" :> Ref(2))),
       Dict("child" :> Ref(3)),
       Dict(("name" :> Str("A")) @@ ("type" :> Str("object"))) >>

\* {name: R, type: object, x: {$ref: "#/definitions/A"}, y: {$ref: "#/x"},
\*  definitions: {A: {name: A, type: object}}}
ChainedRefSchema ==
    << Dict(("name" :> Str("R")) @@ ("type" :> Str("object"))
            @@ ("x" :> Ref(2)) @@ ("y" :> Ref(3)) @@ ("definitions" :> Ref(4))),
       Dict("$ref" :> Str("#/definitions/A")),
       Dict("$ref" :> Str("#/x")),
       Dict("A" :> Ref(5)),
       Dict(("name" :> Str("A")) @@ ("type" :> Str("object"))) >>

\* {name: Child, type: object,
\*  allOf: [{$ref: "#/definitions/Base"}, {properties: {y: {type: string, default: "e"}}}],
\*  definitions: {Base: {name: Base, type: object, additionalProperties: false,
\*                       properties: {x: {type: string, default: "d"}}}}}
ChildSchema ==
    << Dict(("name" :> Str("Child")) @@ ("type" :> Str("object"))
            @@ ("allOf" :> Ref(2)) @@ ("definitions" :> Ref(7))),
       List(<<Ref(3), Ref(4)>>),
       Dict("$ref" :> Str("#/definitions/Base")),
       Dict("properties" :> Ref(5)),
       Dict("y" :> Ref(6)),
       Dict(("type" :> Str("string")) @@ ("default" :> Str("e"))),
       Dict("Base" :> Ref(8)),
       Dict(("name" :> Str("Base")) @@ ("type" :> Str("object"))
            @@ ("properties" :> Ref(9)) @@ ("additionalProperties" :> Bool("false"))),
       Dict("x" :> Ref(10)),
       Dict(("type" :> Str("string")) @@ ("default" :> Str("d"))) >>

\* {name: L, type: array, items: {name: X, type: object,
\*                                properties: {x: {type: string, default: "d"}}}}
ArraySchema ==
    << Dict(("name" :> Str("L")) @@ ("type" :> Str("array")) @@ ("items" :> Ref(2))),
       Dict(("name" :> Str("X")) @@ ("type" :> Str("object")) @@ ("properties" :> Ref(3))),
       Dict("x" :> Ref(4)),
       Dict(("type" :> Str("string")) @@ ("default" :> Str("d"))) >>

\* {name: R, type: object,
\*  properties: {x: {$ref: "#/definitions/A"},
\*               y: {type: array, items: {$ref: "#/definitions/A"}}},
\*  definitions: {A: {name: A, type: object,
\*                    properties: {x: {type: string, default: "d"}}}}}
TwoPathSchema ==
    << Dict(("name" :> Str("R")) @@ ("type" :> Str("object"))
            @@ ("properties" :> Ref(2)) @@ ("definitions" :> Ref(5))),
       Dict(("x" :> Ref(3)) @@ ("y" :> Ref(4))),
       Dict("$ref" :> Str("#/definitions/A")),
       Dict(("type" :> Str("array")) @@ ("items" :> Ref(9))),
       Dict("A" :> Ref(6)),
       Dict(("name" :> Str("A")) @@ ("type" :> Str("object")) @@ ("properties" :> Ref(7))),
       Dict("x" :> Ref(8)),
       Dict(("type" :> Str("string")) @@ ("default" :> Str("d"))),
       Dict("$ref" :> Str("#/definitions/A")) >>

BasicInputs ==
    << PlainSchema, SelfRefSchema, CyclicSchema, SameNameSchema,
       ChainedRefSchema, ChildSchema, ArraySchema, TwoPathSchema >>

\* {name: R, type: object,
\*  properties: {a: {name: A, type: object}, l: {type: array}}}
NoItemsSchema ==
    << Dict(("name" :> Str("R")) @@ ("type" :> Str("object")) @@ ("properties" :> Ref(2))),
       Dict(("a" :> Ref(3)) @@ ("l" :> Ref(4))),
       Dict(("name" :> Str("A")) @@ ("type" :> Str("object"))),
       Dict("type" :> Str("array")) >>

\* {name: R, type: object, properties: {x: {type: object}}}
NoNameSchema ==
    << Dict(("name" :> Str("R")) @@ ("type" :> Str("object")) @@ ("properties" :> Ref(2))),
       Dict("x" :> Ref(3)),
       Dict("type" :> Str("object")) >>

\* {name: R, type: object, properties: {x: {$ref: null}}}
NullRefSchema ==
    << Dict(("name" :> Str("R")) @@ ("type" :> Str("object")) @@ ("properties" :> Ref(2))),
       Dict("x" :> Ref(3)),
       Dict("$ref" :> None) >>

\* {name: R, type: object, properties: {x: {$ref: "#/definitions/Z"}},
\*  definitions: {A: {name: A, type: object}}}
MissingRefSchema ==
    << Dict(("name" :> Str("R")) @@ ("type" :> Str("object"))
            @@ ("properties" :> Ref(2)) @@ ("definitions" :> Ref(4))),
       Dict("x" :> Ref(3)),
       Dict("$ref" :> Str("#/definitions/Z")),
       Dict("A" :> Ref(5)),
       Dict(("name" :> Str("A")) @@ ("type" :> Str("object"))) >>

\* {name: R, type: object, allOf: [1]}
BadAllOfSchema ==
    << Dict(("name" :> Str("R")) @@ ("type" :> Str("object")) @@ ("allOf" :> Ref(2))),
       List(<<Num("1")>>) >>

\* {name: R, type: array, items: {name: X, type: object}, allOf: [1]}
MaskedAllOfSchema ==
    << Dict(("name" :> Str("R")) @@ ("type" :> Str("array"))
            @@ ("items" :> Ref(2)) @@ ("allOf" :> Ref(3))),
       Dict(("name" :> Str("X")) @@ ("type" :> Str("object"))),
       List(<<Num("1")>>) >>

\* {name: R, type: object, properties: {x: {anyOf: [{type: object}]}}}
UnvisitedSchema ==
    << Dict(("name" :> Str("R")) @@ ("type" :> Str("object")) @@ ("properties" :> Ref(2))),
       Dict("x" :> Ref(3)),
       Dict("anyOf" :> Ref(4)),
       List(<<Ref(5)>>),
       Dict("type" :> Str("object")) >>

FaultyInputs ==
    << NoItemsSchema, NoNameSchema, NullRefSchema, MissingRefSchema, BadAllOfSchema,
       MaskedAllOfSchema, UnvisitedSchema >>

\* {name: R, type: object,
\*  properties: {x: {properties: {z: {type: string, default: "d"}}}}}
NestedSchema ==
    << Dict(("name" :> Str("R")) @@ ("type" :> Str("object")) @@ ("properties" :> Ref(2))),
       Dict("x" :> Ref(3)),
       Dict("properties" :> Ref(4)),
       Dict("z" :> Ref(5)),
       Dict(("type" :> Str("string")) @@ ("default" :> Str("d"))) >>

\* {name: C, type: object, required: [c], properties: {c: {type: string}},
\*  allOf: [{$ref: "#/definitions/A"},
\*          {name: I, required: [i],
\*           properties: {i: {type: array, items: {type: string}}}},
\*          {$ref: "#/definitions/B"}],
\*  definitions: {A: {name: A, type: object, required: [a],
\*                    properties: {a: {type: string, default: "d"}}},
\*                B: {name: B, type: object}}}
TwoRefsAllOfSchema ==
    << Dict(("name" :> Str("C")) @@ ("type" :> Str("object")) @@ ("required" :> Ref(2))
            @@ ("properties" :> Ref(3)) @@ ("allOf" :> Ref(5)) @@ ("definitions" :> Ref(11))),
       List(<<Str("c")>>),
       Dict("c" :> Ref(4)),
       Dict("type" :> Str("string")),
       List(<<Ref(6), Ref(7), Ref(10)>>),
       Dict("$ref" :> Str("#/definitions/A")),
       Dict(("name" :> Str("I")) @@ ("required" :> Ref(8)) @@ ("properties" :> Ref(9))),
       List(<<Str("i")>>),
       Dict("i" :> Ref(16)),
       Dict("$ref" :> Str("#/definitions/B")),
       Dict(("A" :> Ref(12)) @@ ("B" :> Ref(15))),
       Dict(("name" :> Str("A")) @@ ("type" :> Str("object")) @@ ("required" :> Ref(13))
            @@ ("properties" :> Ref(14))),
       List(<<Str("a")>>),
       Dict("a" :> Ref(18)),
       Dict(("name" :> Str("B")) @@ ("type" :> Str("object"))),
       Dict(("type" :> Str("array")) @@ ("items" :> Ref(17))),
       Dict("type" :> Str("string")),
       Dict(("type" :> Str("string")) @@ ("default" :> Str("d"))) >>

\* {name: C, type: object, allOf: [{properties: {i: {type: string}}}]}
InlineAllOfSchema ==
    << Dict(("name" :> Str("C")) @@ ("type" :> Str("object")) @@ ("allOf" :> Ref(2))),
       List(<<Ref(3)>>),
       Dict("properties" :> Ref(4)),
       Dict("i" :> Ref(5)),
       Dict("type" :> Str("string")) >>

\* {name: C, type: object, allOf: []}
EmptyAllOfSchema ==
    << Dict(("name" :> Str("C")) @@ ("type" :> Str("object")) @@ ("allOf" :> Ref(2))),
       List(<<>>) >>

AllOfInputs == << TwoRefsAllOfSchema, InlineAllOfSchema, EmptyAllOfSchema >>

Inputs == BasicInputs \o FaultyInputs \o <<NestedSchema>> \o AllOfInputs

\* the caller's schema object
InputRoot == Ref(1)

(***************************************************************************)
(* ModelFactory: the walker. process_objects recurses, so its activations  *)
(* are frames of an explicit call stack, and one action is one stretch of  *)
(* its body between two calls.                                             *)
(***************************************************************************)
EmptyReg == [z \in {} |-> 0]

Frame(node, base_class) ==
    [node |-> node,            \* schema
     base |-> base_class,      \* base_class: None or a class name
     pc |-> "enter",
     name |-> None,            \* schema_name
     todo |-> {},              \* what is left of schema.items() in the loop of line 138
     ret |-> 0,                \* new_model: a class (index into types) or 0 for None
     origin |-> <<>>,          \* resolve_all_of's origin
     items |-> <<>>]           \* resolve_all_of's items

Top == stack[Len(stack)]
Running == build > 0 /\ stack # <<>> /\ status[build] = "running"

\* an exception leaves process_objects and ModelFactory.__init__: the build is over
Raise(e) ==
    /\ stack' = <<>>
    /\ status' = [status EXCEPT ![build] = e]

\* process_objects(node, base_class) is called by the frame on top of stk
Call(stk, node, base_class) ==
    IF Len(stk) >= RecursionLimit
    THEN Raise("RuntimeError")
    ELSE /\ stack' = Append(stk, Frame(node, base_class))
         /\ UNCHANGED status

\* the frame on top returns rv to its caller
Return(rv) ==
    LET rest == SubSeq(stack, 1, Len(stack) - 1)
    IN  IF rest = <<>>
        THEN /\ stack' = <<>>
             /\ status' = [status EXCEPT ![build] = "done"]
        ELSE LET c == rest[Len(rest)]
                 c2 == CASE c.pc = "await"  -> [c EXCEPT !.pc = "register", !.ret = rv]
                         [] c.pc = "origin" -> [c EXCEPT !.pc = "merge"]
                         [] OTHER           -> c
             IN  /\ stack' = [rest EXCEPT ![Len(rest)] = c2]
                 /\ UNCHANGED status

WithTop(f) == [stack EXCEPT ![Len(stack)] = f]

\* ModelFactory.__init__
FactoryInit ==
    /\ build < MaxBuilds
    /\ stack = <<>>
    /\ nconstruct = 0
    /\ build' = build + 1
    /\ IF ~IsDict(heap, InputRoot)
       THEN /\ status' = Append(status, "TypeError")
            /\ schema' = Append(schema, None)
            /\ stack' = <<>>
            /\ heap' = heap
       ELSE LET c == deepcopy(heap, InputRoot)
            IN  /\ heap' = c.h
                /\ schema' = Append(schema, c.v)
                /\ status' = Append(status, "running")
                /\ stack' = <<Frame(c.v, None)>>
    /\ registry' = Append(registry, EmptyReg)
    /\ UNCHANGED <<inputIdx, types, Classes>>
    /\ UNCHANGED ivars

\* process_objects, lines 125-137 and 167-168
ProcessEnter ==
    /\ Running
    /\ Top.pc = "enter"
    /\ UNCHANGED <<heap, inputIdx, build, schema, registry, types, Classes>>
    /\ UNCHANGED ivars
    /\ IF ~IsDict(heap, Top.node) THEN Raise("AttributeError")
       ELSE
         LET schema_name == get_schema_name(heap, Top.node)
             o == heap[Top.node.ref]
         IN  IF schema_name = None /\ Get(o, "type") = Str("object")
             THEN Raise("KeyError")
             ELSE IF schema_name = None \/ schema_name.s \notin DOMAIN registry[build]
             THEN /\ stack' = WithTop([Top EXCEPT
                                 !.pc = "children",
                                 !.name = schema_name,
                                 !.todo = {[k |-> k, v |-> o.d[k]] :
                                             k \in {z \in DOMAIN o.d : IsDict(heap, o.d[z])}}])
                  /\ UNCHANGED status
             ELSE Return(registry[build][schema_name.s])

\* process_objects, lines 138-140: the next dict-valued entry of schema.items(),
\* in whatever order the dict yields them
ProcessChild ==
    /\ Running
    /\ Top.pc = "children"
    /\ \E c \in Top.todo :
          Call(WithTop([Top EXCEPT !.todo = Top.todo \ {c}]), c.v, None)
    /\ UNCHANGED <<heap, inputIdx, build, schema, registry, types, Classes>>
    /\ UNCHANGED ivars

\* the loop of line 138 is over: which branch of lines 142-161 is taken
Branch ==
    LET o == heap[Top.node.ref]
        schema_type == Get(o, "type")
    IN  IF schema_type = Str("array") THEN "array"
        ELSE IF "$ref" \in DOMAIN o.d THEN "$ref"
        ELSE IF "allOf" \in DOMAIN o.d THEN "allOf"
        ELSE IF Top.name # None /\ (schema_type = Str("object") \/ schema_type = None)
        THEN "object"
        ELSE "none"

AtBranch(b) == Running /\ Top.pc = "children" /\ Top.todo = {} /\ Branch = b

\* process_objects, lines 143-147
ProcessArray ==
    /\ AtBranch("array")
    /\ LET items == Get(heap[Top.node.ref], "items")
       IN  IF items = None THEN Raise("KeyError")
           ELSE Call(WithTop([Top EXCEPT !.pc = "await"]), items, None)
    /\ UNCHANGED <<heap, inputIdx, build, schema, registry, types, Classes>>
    /\ UNCHANGED ivars

\* schema.update(referenced); schema.pop('$ref')
splice(h, node, referenced) ==
    SetD(h, node.ref, Del(Over(h[node.ref].d, h[referenced.ref].d), "$ref"))

\* process_objects, lines 148-152
ProcessRef ==
    /\ AtBranch("$ref")
    /\ LET r == resolve_reference(heap, schema[build], Top.node)
       IN  IF r.err # "" THEN Raise(r.err) /\ heap' = heap
           ELSE IF ~IsDict(heap, r.val)
           THEN Raise(IF r.val.k = "str" THEN "ValueError" ELSE "TypeError") /\ heap' = heap
           ELSE /\ heap' = splice(heap, Top.node, r.val)
                /\ Call(WithTop([Top EXCEPT !.pc = "await"]), r.val, None)
    /\ UNCHANGED <<inputIdx, build, schema, registry, types, Classes>>
    /\ UNCHANGED ivars

\* resolve_all_of, lines 197-206: the loop over the allOf list
RECURSIVE all_of_loop(_, _, _, _, _)
all_of_loop(h, root, all_of, origin, items) ==
    IF all_of = <<>> THEN [err |-> "", h |-> h, origin |-> origin, items |-> items]
    ELSE
      LET i == Head(all_of)
      IN  IF ~IsDict(h, i)
          THEN [err |-> "ValueError", h |-> h, origin |-> origin, items |-> items]
          ELSE IF "$ref" \in DOMAIN h[i.ref].d
          THEN LET r == resolve_reference(h, root, i)
               IN  IF r.err # ""
                   THEN [err |-> r.err, h |-> h, origin |-> origin, items |-> items]
                   ELSE IF ~IsDict(h, r.val)
                   THEN [err |-> IF r.val.k = "str" THEN "ValueError" ELSE "TypeError",
                         h |-> h, origin |-> origin, items |-> items]
                   ELSE LET c == deepcopy(splice(h, i, r.val), i)
                        IN  all_of_loop(c.h, root, Tail(all_of), Append(origin, c.v), items)
          ELSE all_of_loop(h, root, Tail(all_of), origin, Append(items, i))

\* process_objects, line 154: resolve_all_of up to its call of process_objects
\* (lines 194-210)
ProcessAllOf ==
    /\ AtBranch("allOf")
    /\ LET all_of == Get(heap[Top.node.ref], "allOf")
       IN  IF ~IsList(heap, all_of) THEN Raise("TypeError") /\ heap' = heap
           ELSE
             LET r == all_of_loop(heap, schema[build], heap[all_of.ref].l, <<>>, <<>>)
                 f == [Top EXCEPT !.origin = r.origin, !.items = r.items]
             IN  IF r.err # "" THEN Raise(r.err) /\ heap' = heap
                 ELSE /\ heap' = SetD(r.h, Top.node.ref, Del(r.h[Top.node.ref].d, "allOf"))
                      /\ IF Len(r.origin) > 0
                         THEN Call(WithTop([f EXCEPT !.pc = "origin"]), r.origin[1], None)
                         ELSE stack' = WithTop([f EXCEPT !.pc = "merge"]) /\ UNCHANGED status
    /\ UNCHANGED <<inputIdx, build, schema, registry, types, Classes>>
    /\ UNCHANGED ivars

\* the rest of resolve_all_of (lines 211-217) and process_objects, line 155
AllOfMerge ==
    /\ Running
    /\ Top.pc = "merge"
    /\ LET super_class_name ==
               IF Len(Top.origin) > 0 THEN get_schema_name(heap, Top.origin[1]) ELSE None
           items == Top.origin \o Top.items \o <<Top.node>>
           m == reduce_merge(heap, items[1], Tail(items))
       IN  IF m.err # "" THEN Raise(m.err) /\ heap' = heap
           ELSE /\ heap' = m.h
                /\ Call(WithTop([Top EXCEPT !.pc = "await"]), items[1], super_class_name)
    /\ UNCHANGED <<inputIdx, build, schema, registry, types, Classes>>
    /\ UNCHANGED ivars

\* _model_factory(schema, base_class, classes): the class it generates
NewModel(name, schema_copy, base_class, b) ==
    [name |-> name,            \* NewModel.__name__
     schema |-> schema_copy,   \* the deep copy its __init__ closes over
     base |-> base_class,      \* its superclass: a generated class, or 0 for model.Model
     build |-> b]              \* the factory that generated it

\* process_objects, lines 156-159, and _model_factory
ProcessObject ==
    /\ AtBranch("object")
    /\ LET base_class == IF Top.base # None
                         THEN IF Top.base.s \in DOMAIN registry[build]
                              THEN registry[build][Top.base.s] ELSE -1
                         ELSE 0
           c == deepcopy(heap, Top.node)
           schema_name == get_schema_name(c.h, c.v)
       IN  IF base_class = -1
           THEN \* class NewModel(None)
                /\ Raise("TypeError")
                /\ heap' = c.h
                /\ Classes' = build
                /\ UNCHANGED types
           ELSE IF schema_name = None
           THEN /\ Raise("KeyError")
                /\ heap' = c.h
                /\ Classes' = build
                /\ UNCHANGED types
           ELSE /\ heap' = c.h
                /\ Classes' = build
                /\ types' = Append(types, NewModel(schema_name.s, c.v, base_class, build))
                /\ stack' = WithTop([Top EXCEPT !.pc = "register", !.ret = Len(types) + 1])
                /\ UNCHANGED status
    /\ UNCHANGED <<inputIdx, build, schema, registry>>
    /\ UNCHANGED ivars

\* process_objects, lines 160-161
ProcessNone ==
    /\ AtBranch("none")
    /\ stack' = WithTop([Top EXCEPT !.pc = "register", !.ret = 0])
    /\ UNCHANGED <<heap, inputIdx, build, status, schema, registry, types, Classes>>
    /\ UNCHANGED ivars

\* process_objects, lines 163-166
ProcessRegister ==
    /\ Running
    /\ Top.pc = "register"
    /\ registry' = IF Top.ret # 0 /\ Top.name # None
                   THEN [registry EXCEPT ![build] = Put(registry[build], Top.name.s, Top.ret)]
                   ELSE registry
    /\ Return(Top.ret)
    /\ UNCHANGED <<heap, inputIdx, build, schema, types, Classes>>
    /\ UNCHANGED ivars

Walk ==
    \/ ProcessEnter
    \/ ProcessChild
    \/ ProcessArray
    \/ ProcessRef
    \/ ProcessAllOf
    \/ AllOfMerge
    \/ ProcessObject
    \/ ProcessNone
    \/ ProcessRegister


(***************************************************************************)
(* jsonschema.validate, which Model.validate calls: the keywords type,     *)
(* required, additionalProperties, properties and items.                   *)
(***************************************************************************)
type_matches(h, v, t) ==
    CASE t = "object"  -> IsDict(h, v)
      [] t = "array"   -> IsList(h, v)
      [] t = "string"  -> v.k = "str"
      [] t = "number"  -> v.k = "num"
      [] t = "integer" -> v.k = "num"
      [] t = "boolean" -> v.k = "bool"
      [] t = "null"    -> v.k = "none"
      [] OTHER         -> TRUE

RECURSIVE jsonschema_valid(_, _, _)
RECURSIVE jsonschema_object(_, _, _)
\* the fields of a dict against an object schema
jsonschema_object(h, fields, sch) ==
    LET s == h[sch.ref].d
        props == IF "properties" \in DOMAIN s /\ IsDict(h, s["properties"])
                 THEN h[s["properties"].ref].d ELSE EmptyMap
        required == IF "required" \in DOMAIN s /\ IsList(h, s["required"])
                    THEN {h[s["required"].ref].l[i].s : i \in 1..Len(h[s["required"].ref].l)}
                    ELSE {}
    IN  /\ required \subseteq DOMAIN fields
        /\ ("additionalProperties" \in DOMAIN s /\ s["additionalProperties"] = Bool("false"))
              => DOMAIN fields \subseteq DOMAIN props
        /\ \A k \in DOMAIN fields \cap DOMAIN props : jsonschema_valid(h, fields[k], props[k])

jsonschema_valid(h, v, sch) ==
    IF ~IsDict(h, sch) THEN TRUE
    ELSE
      LET s == h[sch.ref].d
      IN  /\ ("type" \in DOMAIN s /\ s["type"].k = "str") => type_matches(h, v, s["type"].s)
          /\ IsDict(h, v) => jsonschema_object(h, h[v.ref].d, sch)
          /\ (IsList(h, v) /\ "items" \in DOMAIN s)
                => \A i \in 1..Len(h[v.ref].l) : jsonschema_valid(h, h[v.ref].l[i], s["items"])

\* Model.validate(obj) for a dict obj with these fields: TRUE when no ValidationError
validate(h, self, fields) ==
    LET sch == h[self].attrs["schema"]
        s == h[sch.ref].d
    IN  /\ ("type" \in DOMAIN s /\ s["type"].k = "str") => s["type"].s = "object"
        /\ jsonschema_object(h, fields, sch)

(***************************************************************************)
(* Model instances (model.py) and the classes' constructors (core.py).     *)
(***************************************************************************)
\* the fields a caller passes to a constructor, to __setitem__ and to update
FieldKeys == {"x", "y"}
Values == {Str("v"), Num("1")}
Others == UNION {[S -> Values] : S \in SUBSET FieldKeys}

\* the initial field mappings a caller passes to a constructor, each a small
\* heap of its own with the mapping at cell 1:
\* {}, {x: "v"}, {y: "v"}, {x: {}}, {x: {}, y: [{}]}
Args ==
    << << Dict(EmptyMap) >>,
       << Dict("x" :> Str("v")) >>,
       << Dict("y" :> Str("v")) >>,
       << Dict("x" :> Ref(2)), Dict(EmptyMap) >>,
       << Dict(("x" :> Ref(2)) @@ ("y" :> Ref(3))), Dict(EmptyMap),
          List(<<Ref(4)>>), Dict(EmptyMap) >> >>

\* cells placed in the heap after off cells
Relocate(cells, off) ==
    LET shift(x) == IF x.k = "ref" THEN Ref(x.ref + off) ELSE x
    IN  [i \in 1..Len(cells) |->
            [kind |-> cells[i].kind,
             d |-> [k \in DOMAIN cells[i].d |-> shift(cells[i].d[k])],
             l |-> [j \in 1..Len(cells[i].l) |-> shift(cells[i].l[j])],
             cls |-> cells[i].cls,
             attrs |-> [k \in DOMAIN cells[i].attrs |-> shift(cells[i].attrs[k])]]]

\* NewModel.__init__ sets self.schema and calls base_class.__init__, which, when
\* base_class is a generated class, sets self.schema again: the schema an
\* instance of class t is left with when Model.__init__ runs
RECURSIVE bound_schema(_)
bound_schema(t) ==
    IF types[t].base = 0 THEN types[t].schema ELSE bound_schema(types[t].base)

\* dict(*args) for the one positional argument a
dict_of(h, a) ==
    IF IsDict(h, a) THEN [err |-> "", f |-> h[a.ref].d]
    ELSE IF IsList(h, a)
    THEN [err |-> IF h[a.ref].l = <<>> THEN "" ELSE "TypeError", f |-> EmptyMap]
    ELSE IF a.k = "str"
    THEN [err |-> IF a.s = "" THEN "" ELSE "ValueError", f |-> EmptyMap]
    ELSE [err |-> "TypeError", f |-> EmptyMap]

\* what iterating over a value yields (enumerate(values.get(k, [])))
iterate(h, v) ==
    IF IsList(h, v) THEN [err |-> "", l |-> h[v.ref].l]
    ELSE IF v.k = "str" THEN [err |-> "", l |-> [i \in 1..Len(v.s) |-> Str(SubSeq(v.s, i, i))]]
    ELSE IF IsDict(h, v) /\ h[v.ref].d = EmptyMap THEN [err |-> "", l |-> <<>>]
    ELSE [err |-> "TypeError", l |-> <<>>]

\* self.__dict__['__original__'] = copy.deepcopy(d)
original_of(h, d) == deepcopy(h, d)

RECURSIVE new_instance(_, _, _)
RECURSIVE _set_defaults(_, _, _, _)
RECURSIVE defaults_loop(_, _, _, _, _)
RECURSIVE array_loop(_, _, _, _, _)

Ok(h) == [err |-> "", h |-> h, v |-> None]
Fail(e, h) == [err |-> e, h |-> h, v |-> None]

\* lines 61-62: r is what _set_defaults returned for item i of lst
array_store(r, lst, i) ==
    IF r.err # "" \/ r.v = None THEN r
    ELSE IF ~IsList(r.h, lst) THEN Fail("TypeError", r.h)
    ELSE Ok(SetL(r.h, lst.ref, [r.h[lst.ref].l EXCEPT ![i] = r.v]))

array_next(r, self, items_schema, lst, i) ==
    IF r.err # "" THEN r ELSE array_loop(r.h, self, items_schema, lst, i)

\* the loop of lines 59-62 over the items of lst, from index i on
array_loop(h, self, items_schema, lst, i) ==
    LET it == iterate(h, lst)
    IN  IF it.err # "" THEN Fail(it.err, h)
        ELSE IF i > Len(it.l) THEN Ok(h)
        ELSE array_next(array_store(_set_defaults(h, self, items_schema, it.l[i]), lst, i),
                        self, items_schema, lst, i + 1)

\* lines 56-57: r is what _set_defaults returned for the nested schema of key k
nested_store(r, values, k) ==
    IF r.err # "" \/ r.v = None THEN r
    ELSE Ok(SetD(r.h, values.ref, Put(r.h[values.ref].d, k, r.v)))

\* lines 54-57, for the entry k: v of props
nested_defaults(h, self, v, values, k) ==
    IF ~IsDict(h, v) THEN Fail("TypeError", h)
    ELSE IF "properties" \notin DOMAIN h[v.ref].d THEN Ok(h)
    ELSE IF ~IsDict(h, values) THEN Fail("AttributeError", h)
    ELSE nested_store(_set_defaults(h, self, v, Get(h[values.ref], k)), values, k)

\* lines 58-62, r being the outcome of lines 54-57
array_defaults(r, self, v, values, k) ==
    IF r.err # "" THEN r
    ELSE IF Get(r.h[v.ref], "type") # Str("array") THEN Ok(r.h)
    ELSE IF ~IsDict(r.h, values) THEN Fail("AttributeError", r.h)
    ELSE IF k \notin DOMAIN r.h[values.ref].d THEN Ok(r.h)
    ELSE array_loop(r.h, self, Get(r.h[v.ref], "items"), r.h[values.ref].d[k], 1)

\* values[k] = copy.deepcopy(v.get('default'))
store_default(h, v, values, k) ==
    LET c == deepcopy(h, h[v.ref].d["default"])
    IN  SetD(c.h, values.ref, Put(c.h[values.ref].d, k, c.v))

\* lines 63-64, r being the outcome of lines 54-62
own_default(r, v, values, k) ==
    IF r.err # "" THEN r
    ELSE IF k \notin DOMAIN r.h[values.ref].d /\ "default" \in DOMAIN r.h[v.ref].d
    THEN Ok(store_default(r.h, v, values, k))
    ELSE Ok(r.h)

loop_next(r, self, props, values, keys) ==
    IF r.err # "" THEN r ELSE defaults_loop(r.h, self, props, values, keys)

\* the loop of lines 53-64 over the entries of props that are left
defaults_loop(h, self, props, values, keys) ==
    IF keys = {} THEN Ok(h)
    ELSE
      LET k == CHOOSE z \in keys : TRUE
          v == h[props.ref].d[k]
      IN  loop_next(own_default(array_defaults(nested_defaults(h, self, v, values, k),
                                               self, v, values, k),
                                v, values, k),
                    self, props, values, keys \ {k})

\* Classes.get(schema.get('name')): a class of the registry Classes refers to, or 0
classes_get(name) ==
    IF name.k = "str" /\ name.s \in DOMAIN registry[Classes]
    THEN registry[Classes][name.s] ELSE 0

\* Model._set_defaults(self, schema, values): the heap after it and what it returns
_set_defaults(h, self, sch, values) ==
    IF ~IsDict(h, sch) THEN Fail("AttributeError", h)
    ELSE IF Classes # 0 /\ sch # h[self].attrs["schema"]
    THEN IF classes_get(Get(h[sch.ref], "name")) # 0
         THEN new_instance(h, classes_get(Get(h[sch.ref], "name")), values)
         ELSE Ok(h)
    ELSE IF "properties" \notin DOMAIN h[sch.ref].d THEN Ok(h)
    ELSE IF ~IsDict(h, h[sch.ref].d["properties"]) THEN Fail("AttributeError", h)
    ELSE defaults_loop(h, self, h[sch.ref].d["properties"], values,
                       DOMAIN h[h[sch.ref].d["properties"].ref].d)

\* Model.__init__, lines 42-44, r being the outcome of _set_defaults(self.schema, d)
init_rest(r, self, d) ==
    IF r.err # "" THEN Fail(r.err, r.h)
    ELSE
      LET h3 == SetD(r.h, self, r.h[d].d)
          c == original_of(Append(h3, Dict(EmptyMap)), Ref(d))
      IN  [err |-> "",
           h |-> [c.h EXCEPT ![self].attrs =
                    h3[self].attrs @@ ("changes" :> Ref(Len(h3) + 1))
                    @@ ("__original__" :> c.v)],
           v |-> Ref(self)]

\* NewModel(a) for the generated class t: NewModel.__init__ and Model.__init__
new_instance(h, t, a) ==
    LET self == Len(h) + 1
        h1 == Append(h, [kind |-> "model", d |-> EmptyMap, l |-> <<>>, cls |-> t,
                         attrs |-> ("schema" :> bound_schema(t))])
        dd == dict_of(h1, a)
    IN  IF dd.err # "" THEN Fail(dd.err, h1)
        ELSE init_rest(_set_defaults(Append(h1, Dict(dd.f)), self, bound_schema(t),
                                     Ref(self + 1)),
                       self, self + 1)

\* the instance's fields, its changes log and its __original__ snapshot
FieldsOf(h, self)   == h[self].d
ChangesOf(h, self)  == h[h[self].attrs["changes"].ref].d
OriginalOf(h, self) == h[h[self].attrs["__original__"].ref].d

\* a value as == compares it: a dict (a Model is one) by its items, a list by
\* its elements, whatever cells hold them
RECURSIVE Tree(_, _)
Tree(h, v) ==
    IF v.k # "ref" THEN [k |-> v.k, s |-> v.s, d |-> EmptyMap, l |-> <<>>]
    ELSE [k |-> IF h[v.ref].kind = "list" THEN "list" ELSE "dict",
          s |-> "",
          d |-> [key \in DOMAIN h[v.ref].d |-> Tree(h, h[v.ref].d[key])],
          l |-> [i \in 1..Len(h[v.ref].l) |-> Tree(h, h[v.ref].l[i])]]

TreeMap(h, f) == [key \in DOMAIN f |-> Tree(h, f[key])]

\* jsonpatch.make_patch(src, dst) for two dicts: the operations of the patch,
\* a difference inside two containers being reported at the key that holds them
make_patch(h, src, dst) ==
    {[op |-> "remove", path |-> key, value |-> Tree(h, None)] :
        key \in DOMAIN src \ DOMAIN dst}
    \cup {[op |-> "add", path |-> key, value |-> Tree(h, dst[key])] :
        key \in DOMAIN dst \ DOMAIN src}
    \cup {[op |-> "replace", path |-> key, value |-> Tree(h, dst[key])] :
        key \in {z \in DOMAIN src \cap DOMAIN dst : Tree(h, src[z]) # Tree(h, dst[z])}}

\* a faulty patch: the delta is taken from the changes log
patch_from_changes(h, self) ==
    {[op |-> "replace", path |-> key, value |-> Tree(h, ChangesOf(h, self)[key])] :
        key \in DOMAIN ChangesOf(h, self)}

\* Model.patch
patch(h, self) == make_patch(h, OriginalOf(h, self), FieldsOf(h, self))

\* a faulty __setitem__: the one model.py keeps commented out, which validates
\* the mapping with the new item and refuses an invalid one
__setitem__validating(h, self, key, value) ==
    IF ~validate(h, self, Put(h[self].d, key, value))
    THEN [exc |-> "InvalidOperation", validated |-> TRUE, h |-> h]
    ELSE [exc |-> "", validated |-> TRUE,
          h |-> SetD(SetD(h, self, Put(h[self].d, key, value)),
                     h[self].attrs["changes"].ref,
                     Put(h[h[self].attrs["changes"].ref].d, key, value))]

\* Model.__setitem__ (and __setattr__)
__setitem__(h, self, key, value) ==
    LET ch == h[self].attrs["changes"].ref
    IN  [exc |-> "", validated |-> FALSE,
         h |-> SetD(SetD(h, self, Put(h[self].d, key, value)), ch, Put(h[ch].d, key, value))]

\* a faulty __delitem__: the item is removed without validating what is left
__delitem__unchecked(h, self, key) ==
    IF key \notin DOMAIN h[self].d
    THEN [exc |-> "KeyError", validated |-> FALSE, h |-> h]
    ELSE [exc |-> "", validated |-> FALSE, h |-> SetD(h, self, Del(h[self].d, key))]

\* Model.__delitem__ (and __delattr__)
__delitem__(h, self, key) ==
    IF key \notin DOMAIN h[self].d
    THEN [exc |-> "KeyError", validated |-> FALSE, h |-> h]
    ELSE IF ~validate(h, self, Del(h[self].d, key))
    THEN [exc |-> "InvalidOperation", validated |-> TRUE, h |-> h]
    ELSE [exc |-> "", validated |-> TRUE, h |-> SetD(h, self, Del(h[self].d, key))]

\* a faulty update: the items are committed before the mapping is validated
update_commit_first(h, self, other) ==
    [exc |-> IF validate(h, self, Over(h[self].d, other)) THEN "" ELSE "InvalidOperation",
     validated |-> TRUE,
     h |-> SetD(h, self, Over(h[self].d, other))]

\* Model.update
update(h, self, other) ==
    IF ~validate(h, self, Over(h[self].d, other))
    THEN [exc |-> "InvalidOperation", validated |-> TRUE, h |-> h]
    ELSE [exc |-> "", validated |-> TRUE, h |-> SetD(h, self, Over(h[self].d, other))]

\* Model.clear, Model.pop, Model.popitem
clear(h, self) == [exc |-> "InvalidOperation", validated |-> FALSE, h |-> h]

\* a faulty pop: dict.pop, which removes the key when it is there
dict_pop(h, self, key, default) ==
    IF key \in DOMAIN h[self].d
    THEN [exc |-> "", validated |-> FALSE, h |-> SetD(h, self, Del(h[self].d, key))]
    ELSE [exc |-> "", validated |-> FALSE, h |-> h]

pop(h, self, key, default) == [exc |-> "InvalidOperation", validated |-> FALSE, h |-> h]
popitem(h, self) == [exc |-> "InvalidOperation", validated |-> FALSE, h |-> h]

NoOp ==
    [op |-> "", cls |-> 0, key |-> "", val |-> None, other |-> EmptyMap,
     exc |-> "", validated |-> FALSE,
     fields |-> EmptyMap, changes |-> EmptyMap, original |-> EmptyMap]

\* the record of an operation on inst, with inst's state before it
Op(name, key, val, other, r) ==
    [op |-> name, cls |-> heap[inst].cls, key |-> key, val |-> val, other |-> other,
     exc |-> r.exc, validated |-> r.validated,
     fields |-> FieldsOf(heap, inst), changes |-> ChangesOf(heap, inst),
     original |-> OriginalOf(heap, inst)]

\* the classes a caller holds: the entries of the registry of a finished build
Available ==
    UNION {{registry[b][n] : n \in DOMAIN registry[b]} :
             b \in {z \in 1..build : status[z] = "done"}}

NoSet == [log |-> EmptyMap, key |-> "", val |-> None]

\* inst = NewModel(arg) for a class the caller holds
Construct ==
    /\ inst = 0
    /\ stack = <<>>
    /\ nconstruct < MaxConstructs
    /\ \E t \in Available, a \in 1..Len(Args) :
          LET off == Len(heap)
              r == new_instance(heap \o Relocate(Args[a], off), t, Ref(off + 1))
          IN  /\ heap' = r.h
              /\ inst' = r.v.ref
              /\ arg' = off + 1
              /\ last' = [NoOp EXCEPT !.op = "construct", !.cls = t, !.exc = r.err,
                                       !.fields = Relocate(Args[a], off)[1].d]
              /\ born' = IF r.err = "" THEN TreeMap(r.h, FieldsOf(r.h, r.v.ref))
                         ELSE EmptyMap
    /\ written' = NoSet
    /\ nconstruct' = nconstruct + 1
    /\ UNCHANGED returned
    /\ UNCHANGED <<inputIdx, build, status, schema, registry, types, Classes, stack>>

\* inst[key] = value
SetItem ==
    /\ inst # 0
    /\ \E key \in FieldKeys, value \in Values :
          LET r == __setitem__(heap, inst, key, value)
          IN  /\ heap' = r.h
              /\ last' = Op("set", key, value, EmptyMap, r)
              /\ written' = [log |-> Put(written.log, key, value), key |-> key, val |-> value]
    /\ UNCHANGED <<inputIdx, build, status, schema, registry, types, Classes, stack>>
    /\ UNCHANGED <<inst, arg, born, nconstruct, returned>>

\* del inst[key]
DelItem ==
    /\ inst # 0
    /\ \E key \in FieldKeys :
          LET r == __delitem__(heap, inst, key)
          IN  /\ heap' = r.h
              /\ last' = Op("delete", key, None, EmptyMap, r)
    /\ UNCHANGED <<inputIdx, build, status, schema, registry, types, Classes, stack>>
    /\ UNCHANGED <<inst, arg, written, born, nconstruct, returned>>

\* inst.update(other)
Update ==
    /\ inst # 0
    /\ \E other \in Others :
          LET r == update(heap, inst, other)
          IN  /\ heap' = r.h
              /\ last' = Op("update", "", None, other, r)
    /\ UNCHANGED <<inputIdx, build, status, schema, registry, types, Classes, stack>>
    /\ UNCHANGED <<inst, arg, written, born, nconstruct, returned>>

\* inst.clear()
Clear ==
    /\ inst # 0
    /\ LET r == clear(heap, inst)
       IN  /\ heap' = r.h
           /\ last' = Op("clear", "", None, EmptyMap, r)
    /\ UNCHANGED <<inputIdx, build, status, schema, registry, types, Classes, stack>>
    /\ UNCHANGED <<inst, arg, written, born, nconstruct, returned>>

\* inst.pop(key) and inst.pop(key, default)
Pop ==
    /\ inst # 0
    /\ \E key \in FieldKeys, default \in {None, Str("v")} :
          LET r == pop(heap, inst, key, default)
          IN  /\ heap' = r.h
              /\ last' = Op("pop", key, default, EmptyMap, r)
    /\ UNCHANGED <<inputIdx, build, status, schema, registry, types, Classes, stack>>
    /\ UNCHANGED <<inst, arg, written, born, nconstruct, returned>>

\* inst.popitem()
PopItem ==
    /\ inst # 0
    /\ LET r == popitem(heap, inst)
       IN  /\ heap' = r.h
           /\ last' = Op("popitem", "", None, EmptyMap, r)
    /\ UNCHANGED <<inputIdx, build, status, schema, registry, types, Classes, stack>>
    /\ UNCHANGED <<inst, arg, written, born, nconstruct, returned>>

(***************************************************************************)
(* Attribute-style access: obj.f, obj.f = v, del obj.f.                    *)
(***************************************************************************)
\* the names a caller uses as attributes and as items
AttrNames == {"x", "schema"}

\* the attributes class Model defines: two properties and its methods
ClassAttributes ==
    {"patch", "changes", "validate", "update", "copy", "clear", "pop", "popitem",
     "items", "values", "iteritems", "itervalues"}

\* dict.__getitem__: obj[key]
__getitem__(h, self, key) ==
    IF key \in DOMAIN h[self].d
    THEN [exc |-> "", validated |-> FALSE, h |-> h, v |-> h[self].d[key]]
    ELSE [exc |-> "KeyError", validated |-> FALSE, h |-> h, v |-> None]

\* Model.__getattr__, which the interpreter calls when the normal lookup of
\* an attribute has failed
__getattr__(h, self, key) ==
    IF __getitem__(h, self, key).exc = "KeyError"
    THEN [exc |-> "AttributeError", validated |-> FALSE, h |-> h, v |-> None]
    ELSE __getitem__(h, self, key)

\* obj.key: the normal lookup finds what the class defines (a property is
\* computed, a method is bound) and what the instance's __dict__ holds
\* (schema, __original__); only then is __getattr__ called
getattr(h, self, key) ==
    IF key = "changes"
    THEN [exc |-> "", validated |-> FALSE,
          h |-> deepcopy(h, h[self].attrs["changes"]).h,
          v |-> deepcopy(h, h[self].attrs["changes"]).v]
    ELSE IF key \in ClassAttributes
    THEN [exc |-> "", validated |-> FALSE, h |-> h,
          v |-> [k |-> "attribute", ref |-> self, s |-> key]]
    ELSE IF key \in DOMAIN h[self].attrs
    THEN [exc |-> "", validated |-> FALSE, h |-> h, v |-> h[self].attrs[key]]
    ELSE __getattr__(h, self, key)

\* Model.__setattr__: obj.key = value
__setattr__(h, self, key, value) == __setitem__(h, self, key, value)

\* Model.__delattr__: del obj.key
__delattr__(h, self, key) == __delitem__(h, self, key)

\* inst[key]
GetItem ==
    /\ inst # 0
    /\ \E key \in AttrNames :
          LET r == __getitem__(heap, inst, key)
          IN  /\ heap' = r.h
              /\ last' = Op("getitem", key, r.v, EmptyMap, r)
    /\ UNCHANGED <<inputIdx, build, status, schema, registry, types, Classes, stack>>
    /\ UNCHANGED <<inst, arg, written, born, nconstruct, returned>>

\* inst.key
GetAttr ==
    /\ inst # 0
    /\ \E key \in AttrNames :
          LET r == getattr(heap, inst, key)
          IN  /\ heap' = r.h
              /\ last' = Op("getattr", key, r.v, EmptyMap, r)
    /\ UNCHANGED <<inputIdx, build, status, schema, registry, types, Classes, stack>>
    /\ UNCHANGED <<inst, arg, written, born, nconstruct, returned>>

\* inst.key = value
SetAttr ==
    /\ inst # 0
    /\ \E key \in AttrNames, value \in Values :
          LET r == __setattr__(heap, inst, key, value)
          IN  /\ heap' = r.h
              /\ last' = Op("setattr", key, value, EmptyMap, r)
              /\ written' = [log |-> Put(written.log, key, value), key |-> key, val |-> value]
    /\ UNCHANGED <<inputIdx, build, status, schema, registry, types, Classes, stack>>
    /\ UNCHANGED <<inst, arg, born, nconstruct, returned>>

\* del inst.key
DelAttr ==
    /\ inst # 0
    /\ \E key \in AttrNames :
          LET r == __delattr__(heap, inst, key)
          IN  /\ heap' = r.h
              /\ last' = Op("delattr", key, None, EmptyMap, r)
    /\ UNCHANGED <<inputIdx, build, status, schema, registry, types, Classes, stack>>
    /\ UNCHANGED <<inst, arg, written, born, nconstruct, returned>>

(***************************************************************************)
(* model.py: the read accessors, and a caller changing what they returned. *)
(***************************************************************************)
Accessors == {"copy", "items", "values", "iteritems", "itervalues"}

NoValue == [n |-> 0, v |-> None, fresh |-> FALSE]

\* the elements of a finite set, in some order
RECURSIVE Listed(_)
Listed(S) ==
    IF S = {} THEN <<>>
    ELSE LET x == CHOOSE z \in S : TRUE IN <<x>> \o Listed(S \ {x})

\* dict(self): a new plain dict holding the items of self
dict_self(h, self) == [h |-> Append(h, Dict(h[self].d)), v |-> Ref(Len(h) + 1)]

\* dict.copy, which Model.copy overrides: a new dict holding the same values
dict_copy(h, self) == dict_self(h, self)

\* copy.deepcopy(dict(self))
copy(h, self) ==
    LET d == dict_self(h, self) IN deepcopy(d.h, d.v)

\* copy.deepcopy(dict(self)).items(): (key, value) pairs of the copy
items(h, self) ==
    LET c == copy(h, self)
        f == c.h[c.v.ref].d
        keys == Listed(DOMAIN f)
        n == Len(c.h)
    IN  [h |-> c.h \o [i \in 1..Len(keys) |-> List(<<Str(keys[i]), f[keys[i]]>>)]
                   \o <<List([i \in 1..Len(keys) |-> Ref(n + i)])>>,
         v |-> Ref(n + Len(keys) + 1)]

\* copy.deepcopy(dict(self)).values(): the values of the copy
values(h, self) ==
    LET c == copy(h, self)
        f == c.h[c.v.ref].d
        keys == Listed(DOMAIN f)
    IN  [h |-> Append(c.h, List([i \in 1..Len(keys) |-> f[keys[i]]])),
         v |-> Ref(Len(c.h) + 1)]

\* six.iteritems / six.itervalues of the deep copy: iterators over the same
iteritems(h, self) == items(h, self)
itervalues(h, self) == values(h, self)

\* a read accessor called on inst hands r.v to the caller
Read(name, r) ==
    /\ inst # 0
    /\ returned.n < MaxReads
    /\ heap' = r.h
    /\ returned' = [n |-> returned.n + 1, v |-> r.v, fresh |-> TRUE]
    /\ last' = Op(name, "", r.v, EmptyMap, [exc |-> "", validated |-> FALSE])
    /\ UNCHANGED <<inputIdx, build, status, schema, registry, types, Classes, stack>>
    /\ UNCHANGED <<inst, arg, written, born, nconstruct>>

CallCopy == inst # 0 /\ Read("copy", copy(heap, inst))
CallItems == inst # 0 /\ Read("items", items(heap, inst))
CallValues == inst # 0 /\ Read("values", values(heap, inst))
CallIterItems == inst # 0 /\ Read("iteritems", iteritems(heap, inst))
CallIterValues == inst # 0 /\ Read("itervalues", itervalues(heap, inst))

\* the caller changes one object it can reach from the returned value: an
\* item of a mapping is set or deleted, an element of a sequence is replaced
\* or one is appended
Mutate ==
    /\ returned.fresh
    /\ returned.v.k = "ref"
    /\ \E c \in Reach(heap, {returned.v.ref}) :
          /\ \/ /\ heap[c].kind # "list"
                /\ \E key \in DOMAIN heap[c].d \cup {"m"} :
                      \/ heap' = SetD(heap, c, Put(heap[c].d, key, Str("m")))
                      \/ key \in DOMAIN heap[c].d /\ heap' = SetD(heap, c, Del(heap[c].d, key))
             \/ /\ heap[c].kind = "list"
                /\ \/ heap' = SetL(heap, c, Append(heap[c].l, Str("m")))
                   \/ \E i \in 1..Len(heap[c].l) :
                         heap' = SetL(heap, c, [heap[c].l EXCEPT ![i] = Str("m")])
          /\ last' = [last EXCEPT !.op = "mutate", !.key = last.op, !.val = Ref(c)]
    /\ returned' = [returned EXCEPT !.fresh = FALSE]
    /\ UNCHANGED <<inputIdx, build, status, schema, registry, types, Classes, stack>>
    /\ UNCHANGED <<inst, arg, written, born, nconstruct>>

(***************************************************************************)
(* Specifications.                                                         *)
(***************************************************************************)
\* the caller holds one of the schemas S of Inputs and nothing else exists
Start(S) ==
    /\ inputIdx \in {i \in 1..Len(Inputs) : Inputs[i] \in S}
    /\ heap = Inputs[inputIdx]
    /\ build = 0
    /\ status = <<>>
    /\ schema = <<>>
    /\ registry = <<>>
    /\ types = <<>>
    /\ Classes = 0
    /\ stack = <<>>
    /\ inst = 0
    /\ arg = 0
    /\ last = NoOp
    /\ written = NoSet
    /\ born = EmptyMap
    /\ nconstruct = 0
    /\ returned = NoValue

Init == Start({BasicInputs[i] : i \in 1..Len(BasicInputs)})

\* one registry build, then the life of one instance of one of its classes
Next ==
    \/ build = 0 /\ FactoryInit
    \/ Walk
    \/ Construct
    \/ SetItem
    \/ DelItem
    \/ Update
    \/ Clear
    \/ Pop
    \/ PopItem

Spec == Init /\ [][Next]_vars

\* registry builds only, one after the other from the same input
NextBuild == FactoryInit \/ Walk

SpecBuild == Init /\ [][NextBuild]_vars

\* one registry build from a schema with nested object schemas, then the life
\* of one instance
InitNested == Start({ChildSchema, TwoPathSchema, NestedSchema})

SpecNested == InitNested /\ [][Next]_vars

\* registry builds from schemas composed by allOf
InitAllOf == Start({ChildSchema, TwoPathSchema} \cup {AllOfInputs[i] : i \in 1..Len(AllOfInputs)})

SpecAllOf == InitAllOf /\ [][NextBuild]_vars

\* registry builds from the well-formed and from the faulty schemas
InitAny == Start({Inputs[i] : i \in 1..Len(Inputs)})

SpecAny == InitAny /\ [][NextBuild]_vars

\* one registry build, then one instance used through items and attributes
InitAttr == Start({PlainSchema, ChildSchema, TwoPathSchema})

NextAttr ==
    \/ build = 0 /\ FactoryInit
    \/ Walk
    \/ Construct
    \/ SetItem
    \/ DelItem
    \/ GetItem
    \/ GetAttr
    \/ SetAttr
    \/ DelAttr

SpecAttr == InitAttr /\ [][NextAttr]_vars

\* one registry build, one instance, its read accessors and their caller
InitCopy == Start({ChildSchema, TwoPathSchema})

NextCopy ==
    \/ build = 0 /\ FactoryInit
    \/ Walk
    \/ Construct
    \/ CallCopy
    \/ CallItems
    \/ CallValues
    \/ CallIterItems
    \/ CallIterValues
    \/ Mutate

SpecCopy == InitCopy /\ [][NextCopy]_vars

\* registry builds one after the other, then the construction of an instance
\* of a class of any of them
NextIsolation == FactoryInit \/ Walk \/ Construct

SpecIsolation == InitNested /\ [][NextIsolation]_vars

(***************************************************************************)
(* Properties of the walker (checked under SpecBuild).                     *)
(***************************************************************************)
\* the classes build b has generated
TypesOf(b) == {t \in 1..Len(types) : types[t].build = b}

\* the caller's schema has a named object A with a property that is A
SelfReferential == Inputs[inputIdx] \in {SelfRefSchema, CyclicSchema}

\* the caller's schema is acyclic and no two of its nodes have the same name
AcyclicUniqueNames ==
    Inputs[inputIdx] \notin {SelfRefSchema, CyclicSchema, SameNameSchema}

\* C1: building a registry from a schema in which the named object A has a
\* property that references A itself (the node itself, or a $ref to it)
\* terminates, and on completion the registry holds exactly one class, for A.
SelfReferenceTerminates ==
    SelfReferential =>
        \A b \in 1..build :
            /\ status[b] \in {"running", "done"}
            /\ status[b] = "done" =>
                  /\ DOMAIN registry[b] = {"A"}
                  /\ Cardinality({t \in TypesOf(b) : types[t].name = "A"}) = 1

\* C9: at every step of a build the registry has one entry per name, made by
\* the first class generated for that name and never replaced, and exactly
\* one class is generated per name.
OneTypePerName ==
    \A b \in 1..build :
        /\ \A t1, t2 \in TypesOf(b) : types[t1].name = types[t2].name => t1 = t2
        /\ \A n \in DOMAIN registry[b] :
              \A t \in TypesOf(b) : types[t].name = types[registry[b][n]].name
                                       => registry[b][n] <= t

\* C10: a build never modifies the caller's schema, and two builds from the
\* same acyclic schema with unique names, in whatever order they visit
\* sibling nodes, register the same names with the same schema bound to each.
BuildsAgree ==
    /\ SubSeq(heap, 1, Len(Inputs[inputIdx])) = Inputs[inputIdx]
    /\ (/\ AcyclicUniqueNames
        /\ build = 2
        /\ status[1] = "done"
        /\ status[2] = "done")
       => /\ DOMAIN registry[1] = DOMAIN registry[2]
          /\ \A n \in DOMAIN registry[1] \cap DOMAIN registry[2] :
                Tree(heap, types[registry[1][n]].schema)
                   = Tree(heap, types[registry[2][n]].schema)

(***************************************************************************)
(* Properties of the instances (checked under Spec).                       *)
(***************************************************************************)
Live == FieldsOf(heap, inst)
Untouched ==
    /\ Live = last.fields
    /\ ChangesOf(heap, inst) = last.changes
    /\ OriginalOf(heap, inst) = last.original

\* C2: update(other) validates the live state overlaid with other before it
\* commits: when validation fails it raises InvalidOperation and the live
\* state, original and changes are what they were; when it passes the live
\* state becomes the overlaid mapping.
UpdateValidatesBeforeCommit ==
    last.op = "update" =>
        IF validate(heap, inst, Over(last.fields, last.other))
        THEN /\ last.exc = ""
             /\ Live = Over(last.fields, last.other)
        ELSE /\ last.exc = "InvalidOperation"
             /\ Untouched

UpdateRejected ==
    /\ last.op = "update"
    /\ last.exc = "InvalidOperation"
    /\ last.other # EmptyMap
    /\ Over(last.fields, last.other) # last.fields

\* C3, as stated: delete(key) removes the field only when the mapping without
\* it validates; every failing delete raises InvalidOperation and leaves the
\* live state unchanged; changes is unchanged either way.
DeleteFailsWithInvalidOperation ==
    last.op = "delete" =>
        /\ ChangesOf(heap, inst) = last.changes
        /\ IF last.exc = ""
           THEN /\ validate(heap, inst, Del(last.fields, last.key))
                /\ Live = Del(last.fields, last.key)
           ELSE /\ last.exc = "InvalidOperation"
                /\ Live = last.fields

\* C3, amended: delete(key) of a key the instance does not hold raises
\* KeyError before anything is validated; of a key it holds, it removes the
\* field when the mapping without it validates and raises InvalidOperation
\* otherwise; a failing delete leaves the live state unchanged, and changes
\* is unchanged in every outcome, so a written key stays in changes.
DeleteValidatesOrKeyError ==
    last.op = "delete" =>
        /\ ChangesOf(heap, inst) = last.changes
        /\ last.key \in DOMAIN written.log => last.key \in DOMAIN ChangesOf(heap, inst)
        /\ IF last.key \notin DOMAIN last.fields
           THEN last.exc = "KeyError" /\ ~last.validated /\ Live = last.fields
           ELSE IF validate(heap, inst, Del(last.fields, last.key))
           THEN last.exc = "" /\ Live = Del(last.fields, last.key)
           ELSE last.exc = "InvalidOperation" /\ Live = last.fields

DeletedWrittenKey ==
    /\ last.op = "delete"
    /\ last.exc = ""
    /\ last.key \in DOMAIN written.log
    /\ last.key \notin DOMAIN Live
    /\ last.key \in DOMAIN ChangesOf(heap, inst)

\* C4: clear(), pop(key[, default]) and popitem() raise InvalidOperation in
\* every state of every instance, whether or not the key is there or the
\* instance is empty, and leave the live state, original and changes as
\* they were.
DestructiveOpsRejected ==
    last.op \in {"clear", "pop", "popitem"} =>
        /\ last.exc = "InvalidOperation"
        /\ Untouched

PopOfHeldKeyRejected ==
    /\ last.op = "pop"
    /\ last.key \in DOMAIN last.fields
    /\ last.val # None
    /\ last.exc = "InvalidOperation"

\* C5, as stated: set(key, value) never fails and never validates; after any
\* sequence of operations the live field of the last set key holds the
\* written value, and changes holds exactly the keys ever set, each with the
\* value of its most recent set.
LastSetValueStays ==
    inst # 0 =>
        /\ last.op = "set" => last.exc = "" /\ ~last.validated
        /\ written.key # "" =>
              /\ written.key \in DOMAIN Live
              /\ Live[written.key] = written.val
        /\ ChangesOf(heap, inst) = written.log

\* C5, amended: set(key, value) never fails and never validates, and when it
\* returns the live field holds the written value; a later delete or update
\* of that key removes or replaces the live field. After any sequence of
\* operations changes holds exactly the keys ever set, each with the value of
\* its most recent set.
SetWritesAndLogs ==
    inst # 0 =>
        /\ last.op = "set" =>
              /\ last.exc = ""
              /\ ~last.validated
              /\ last.key \in DOMAIN Live
              /\ Live[last.key] = last.val
              /\ Live = Put(last.fields, last.key, last.val)
        /\ ChangesOf(heap, inst) = written.log

SetLeftInvalidState ==
    /\ last.op = "set"
    /\ ~validate(heap, inst, Live)
    /\ validate(heap, inst, last.fields)

\* the fields whose live value is not the value the instance was born with
Differing ==
    {k \in DOMAIN born \cup DOMAIN Live :
        \/ k \notin DOMAIN born
        \/ k \notin DOMAIN Live
        \/ born[k] # Tree(heap, Live[k])}

\* C6: after any sequence of set, delete, update and rejected operations,
\* original equals the field mapping the instance had when construction ended,
\* and patch is the diff of original against the live state: it names a field
\* exactly when the field's live value differs from its original value (added,
\* removed or replaced), so a field never written, or written back to its
\* original value, produces no operation.
PatchIsDiffOfOriginal ==
    inst # 0 =>
        /\ TreeMap(heap, OriginalOf(heap, inst)) = born
        /\ {o.path : o \in patch(heap, inst)} = Differing
        /\ \A o \in patch(heap, inst) :
              o.op = CASE o.path \notin DOMAIN born -> "add"
                       [] o.path \notin DOMAIN Live -> "remove"
                       [] OTHER                     -> "replace"

WrittenBackToOriginal ==
    /\ inst # 0
    /\ last.op = "set"
    /\ last.key \in DOMAIN born
    /\ last.key \in DOMAIN last.fields
    /\ Tree(heap, last.fields[last.key]) # born[last.key]
    /\ Tree(heap, last.val) = born[last.key]
    /\ patch(heap, inst) = {}

\* the properties the schema of class t declares
DeclaredProps(t) ==
    IF "properties" \in DOMAIN heap[types[t].schema.ref].d
    THEN heap[heap[types[t].schema.ref].d["properties"].ref].d
    ELSE EmptyMap

\* C7: when a class whose schema declares properties constructs an instance
\* from an initial mapping, every declared property that has a default and is
\* absent from the mapping holds a copy of the default, every field present in
\* the mapping keeps the value supplied, and a declared property without a
\* default that is absent stays absent.
ConstructionAppliesDefaults ==
    (last.op = "construct" /\ last.exc = "") =>
        /\ \A k \in DOMAIN last.fields :
              /\ k \in DOMAIN Live
              /\ last.fields[k].k # "ref" => Live[k] = last.fields[k]
        /\ \A k \in DOMAIN DeclaredProps(last.cls) \ DOMAIN last.fields :
              IF "default" \in DOMAIN heap[DeclaredProps(last.cls)[k].ref].d
              THEN /\ k \in DOMAIN Live
                   /\ Tree(heap, Live[k])
                        = Tree(heap, heap[DeclaredProps(last.cls)[k].ref].d["default"])
              ELSE k \notin DOMAIN Live

\* C8: the class generated for a schema Child composed by allOf, whose first
\* referenced element is the registered schema Base, has Base's class as its
\* superclass, and every instance of Child is bound to Child's merged schema,
\* which holds Base's properties and Child's own: the instance's schema, and
\* so the defaults applied to it and the schema it is validated against, is
\* the schema of its class, not that of the superclass.
ChildBoundToMergedSchema ==
    /\ \A t \in 1..Len(types) :
          types[t].name = "Child" =>
              /\ types[t].base # 0
              /\ types[types[t].base].name = "Base"
              /\ DOMAIN DeclaredProps(types[t].base) \subseteq DOMAIN DeclaredProps(t)
    /\ inst # 0 =>
          /\ heap[inst].attrs["schema"] = types[heap[inst].cls].schema
          /\ last.op = "construct" =>
                \A k \in DOMAIN DeclaredProps(heap[inst].cls) \ DOMAIN last.fields :
                    "default" \in DOMAIN heap[DeclaredProps(heap[inst].cls)[k].ref].d
                        => k \in DOMAIN Live

(***************************************************************************)
(* Properties of attribute-style access (checked under SpecAttr).          *)
(***************************************************************************)
\* C11: for every field name, attribute style and item style are
\* interchangeable: obj.f reads the value obj['f'] reads, whichever style
\* wrote it; obj.f = v has the effect of obj['f'] = v on the live state and
\* on changes; del obj.f has the effect and the outcome of del obj['f']; and
\* obj.f for an absent field raises AttributeError.
AttributeAndItemStyleAgree ==
    inst # 0 =>
        /\ last.op = "getattr" =>
              IF last.key \in DOMAIN last.fields
              THEN last.exc = "" /\ last.val = last.fields[last.key]
              ELSE last.exc = "AttributeError"
        /\ last.op = "getitem" =>
              IF last.key \in DOMAIN last.fields
              THEN last.exc = "" /\ last.val = last.fields[last.key]
              ELSE last.exc = "KeyError"
        /\ last.op \in {"getattr", "getitem"} => Untouched
        /\ last.op \in {"setattr", "set"} =>
              /\ last.exc = ""
              /\ Live = Put(last.fields, last.key, last.val)
              /\ ChangesOf(heap, inst) = Put(last.changes, last.key, last.val)
        /\ last.op \in {"delattr", "delete"} =>
              /\ ChangesOf(heap, inst) = last.changes
              /\ IF last.key \notin DOMAIN last.fields
                 THEN last.exc = "KeyError" /\ Live = last.fields
                 ELSE IF validate(heap, inst, Del(last.fields, last.key))
                 THEN last.exc = "" /\ Live = Del(last.fields, last.key)
                 ELSE last.exc = "InvalidOperation" /\ Live = last.fields

(***************************************************************************)
(* Properties of failing builds (checked under SpecAny).                   *)
(***************************************************************************)
\* the caller's schema contains an array node without items, an object-typed
\* node without a name, a null or dangling $ref, or a non-mapping allOf element
ContainsFault == \E i \in 1..Len(FaultyInputs) : Inputs[inputIdx] = FaultyInputs[i]

\* the faulty node is one the walker reaches and the faulty key the one it
\* dispatches on: the error the build then raises
ExpectedError ==
    CASE Inputs[inputIdx] = NoItemsSchema    -> "KeyError"
      [] Inputs[inputIdx] = NoNameSchema     -> "KeyError"
      [] Inputs[inputIdx] = NullRefSchema    -> "ValueError"
      [] Inputs[inputIdx] = MissingRefSchema -> "KeyError"
      [] Inputs[inputIdx] = BadAllOfSchema   -> "ValueError"
      [] OTHER                               -> ""

NestedDefaultsFilled(v, sch) ==
    \A j \in DOMAIN heap[sch["properties"].ref].d :
        "default" \in DOMAIN heap[heap[sch["properties"].ref].d[j].ref].d
            => j \in DOMAIN heap[v.ref].d

\* C13: construction succeeds for every initial mapping and defaults by
\* schema structure: the value of a property whose schema is a nested object
\* schema, registered as a named class or not, has its absent fields that
\* declare defaults filled in, and so has every element of an array of them;
\* a nested property absent from the initial mapping does not stop the
\* construction and receives its own default if it declares one.
ConstructionDefaultsNested ==
    last.op = "construct" =>
        /\ last.exc = ""
        /\ \A k \in DOMAIN DeclaredProps(last.cls) \cap DOMAIN last.fields :
              LET p == heap[DeclaredProps(last.cls)[k].ref].d
              IN  /\ ("properties" \in DOMAIN p /\ IsDict(heap, last.fields[k])) =>
                        /\ IsDict(heap, Live[k])
                        /\ NestedDefaultsFilled(Live[k], p)
                  /\ (/\ Get(heap[DeclaredProps(last.cls)[k].ref], "type") = Str("array")
                      /\ IsDict(heap, Get(heap[DeclaredProps(last.cls)[k].ref], "items"))
                      /\ "properties" \in DOMAIN heap[p["items"].ref].d
                      /\ IsList(heap, Live[k])) =>
                        \A i \in 1..Len(heap[Live[k].ref].l) :
                            IsDict(heap, heap[Live[k].ref].l[i]) =>
                                NestedDefaultsFilled(heap[Live[k].ref].l[i],
                                                     heap[p["items"].ref].d)
        /\ \A k \in DOMAIN DeclaredProps(last.cls) \ DOMAIN last.fields :
              "default" \in DOMAIN heap[DeclaredProps(last.cls)[k].ref].d
                  => k \in DOMAIN Live

(***************************************************************************)
(* Properties of the allOf merge (checked under SpecAllOf).                *)
(***************************************************************************)
\* the merge of two values as the specification words it: two mappings merge
\* key by key, an incoming sequence is appended to the sequence there (or
\* created), any other incoming value overwrites
RECURSIVE MergeTree(_, _)
MergeTree(a, b) ==
    IF a.k # "dict" \/ b.k # "dict" THEN b
    ELSE [a EXCEPT !.d =
            [key \in DOMAIN a.d \cup DOMAIN b.d |->
                IF key \notin DOMAIN b.d THEN a.d[key]
                ELSE IF key \notin DOMAIN a.d THEN b.d[key]
                ELSE IF b.d[key].k = "dict" THEN MergeTree(a.d[key], b.d[key])
                ELSE IF b.d[key].k = "list"
                THEN [a.d[key] EXCEPT !.l = a.d[key].l \o b.d[key].l]
                ELSE b.d[key]]]

\* the left fold of MergeTree over a non-empty sequence of values
RECURSIVE FoldTree(_)
FoldTree(ts) ==
    IF Len(ts) = 1 THEN ts[1]
    ELSE MergeTree(FoldTree(SubSeq(ts, 1, Len(ts) - 1)), ts[Len(ts)])

\* the elements of the allOf list of the node on top, with and without $ref
Referenced ==
    SelectSeq(heap[heap[Top.node.ref].d["allOf"].ref].l,
              LAMBDA e : "$ref" \in DOMAIN heap[e.ref].d)
Inline ==
    SelectSeq(heap[heap[Top.node.ref].d["allOf"].ref].l,
              LAMBDA e : "$ref" \notin DOMAIN heap[e.ref].d)

\* what the merge is folded over: the referenced elements, the inline
\* elements, the node itself
Operands == Top.origin \o Top.items \o <<Top.node>>

StateOf(h) ==
    [live |-> TreeMap(h, FieldsOf(h, inst)),
     original |-> TreeMap(h, OriginalOf(h, inst)),
     changes |-> TreeMap(h, ChangesOf(h, inst))]

\* C15: what copy(), items(), values(), iteritems() and itervalues() return
\* shares no mutable object with the instance, and neither the call nor any
\* later change of the returned value, at any depth, changes the instance's
\* live state, original or changes.
AccessorsReturnDeepCopies ==
    [][last'.op \in Accessors \cup {"mutate"} =>
          /\ StateOf(heap') = StateOf(heap)
          /\ returned'.v.k = "ref" =>
                Reach(heap', {returned'.v.ref}) \cap Reach(heap', {inst}) = {}
      ]_vars

\* the caller has changed an object below the top of what values() returned
\* for an instance that holds nested objects
MutatedNestedCopy ==
    /\ last.op = "mutate"
    /\ last.key = "values"
    /\ last.val # returned.v
    /\ last.val.ref \notin {heap[returned.v.ref].l[i].ref : i \in 1..Len(heap[returned.v.ref].l)}
    /\ \E key \in DOMAIN FieldsOf(heap, inst) : FieldsOf(heap, inst)[key].k = "ref"

(***************************************************************************)
(* Properties of the registry entries (checked under SpecBuild).           *)
(***************************************************************************)
\* C16: in every registry a build produces, the entry for a name is the
\* Model Type generated from a schema of that name, named array nodes and
\* named nodes with $ref included, so no two names share a Model Type.
RegistryNamesItsTypes ==
    \A b \in 1..build :
        /\ \A n \in DOMAIN registry[b] : types[registry[b][n]].name = n
        /\ \A n1, n2 \in DOMAIN registry[b] :
              registry[b][n1] = registry[b][n2] => n1 = n2

(***************************************************************************)
(* Properties of registries side by side (checked under SpecIsolation).    *)
(***************************************************************************)
\* the classes held by the registry of build b
ClassesOf(b) == {registry[b][n] : n \in DOMAIN registry[b]}

\* C17: registries are isolated: whatever builds ran before an instance of a
\* class of registry R is constructed, every nested instance created by the
\* construction is an instance of a class of R.
NestedInstancesFromOwnRegistry ==
    (inst # 0 /\ last.op = "construct") =>
        \A c \in Reach(heap, {inst}) :
            heap[c].kind = "model" =>
                heap[c].cls \in ClassesOf(types[heap[inst].cls].build)

(***************************************************************************)
(* Properties of the constructor's argument (checked under SpecNested).    *)
(***************************************************************************)
\* the heap as it was when the constructor was called with the mapping at arg
BeforeConstruct ==
    LET a == CHOOSE z \in 1..Len(Args) : Relocate(Args[z], arg - 1)[1].d = last.fields
    IN  SubSeq(heap, 1, arg - 1) \o Relocate(Args[a], arg - 1)

\* C18: constructing an instance leaves the caller's initial field mapping
\* unchanged at every depth, and the instance shares no mutable object with
\* it.
ConstructorLeavesArgumentAlone ==
    (inst # 0 /\ last.op = "construct" /\ last.exc = "") =>
        /\ Tree(heap, Ref(arg)) = Tree(BeforeConstruct, Ref(arg))
        /\ Reach(heap, {arg}) \cap Reach(heap, {inst}) = {}

====
